---- MODULE Spec2Model ----
(***************************************************************************)
(* A model of neon/decoder.py: the indentation normaliser (the generator   *)
(* tokenize), the recursive-descent parser (parse and the parse methods of *)
(* the token classes) and the literal conversion cascade (Literal.do).     *)
(***************************************************************************)
EXTENDS Integers, Sequences, FiniteSets, TLC

VARIABLES
    mode,      \* which entry point runs: "tokenize", "parse" or "scan"
    text,      \* the text of one bare literal the scanner has matched
    raw,       \* the scanner's token list (tokens of _scanner.scan)
    lead,      \* len(lstripped(input_string))
    gen,       \* the locals of the generator tokenize, and where it is suspended
    out,       \* every token the generator has yielded so far, in order
    chains,    \* the itertools.chain objects made by Indent.parse
    frames,    \* the parser's call stack, innermost call last
    pulled,    \* every token next(tokens) has handed to parser code, in order
    stored,    \* the kinds of the tokens whose own value became a value or an item
    result     \* how the call ended: its status, returned value and error message

vars == <<mode, text, raw, lead, gen, out, chains, frames, pulled, stored, result>>

----------------------------------------------------------------------------
(* Python values *)

PyNone == [kind |-> "none"]
PyInt(n) == [kind |-> "int", n |-> n]
(* a str is the sequence of its characters *)
PyStr(s) == [kind |-> "str", s |-> s]
(* a float is (-1)^neg * mant * 10^exp, mant without trailing zeros, or     *)
(* one of the special values "inf" and "nan"                                *)
PyFloat(neg, mant, exp, special) ==
    [kind |-> "float", neg |-> neg, mant |-> mant, exp |-> exp, special |-> special]
PyBool(b) == [kind |-> "bool", b |-> b]
PyList(items) == [kind |-> "list", items |-> items]
PyDict(pairs) == [kind |-> "dict", pairs |-> pairs]

(* Token(value=None, line=None); an unset line is the empty sequence *)
NoLine == <<>>
Token(id, value, line) == [id |-> id, value |-> value, line |-> line]

----------------------------------------------------------------------------
(* The generator tokenize.  It is suspended at "start" (not yet run), at    *)
(* one of its yield statements ("y87", "y88", "y93", "y98", "y100"), or it  *)
(* is "done" (it has returned).                                             *)

Top(stack) == stack[Len(stack)]
Pop(stack) == SubSeq(stack, 1, Len(stack) - 1)

GenInit(rawTokens, stripped) ==
    [pc |-> "start", raw |-> rawTokens, idx |-> 0,
     position |-> stripped + 1,
     curr_indent |-> 0, indent_stack |-> <<0>>, newline_last |-> FALSE,
     indent_change |-> 0, tok |-> Token("None", PyNone, NoLine)]

(* what one resumption gives: the generator's new state and the token it   *)
(* yielded (<<>> when it raised StopIteration instead)                     *)
Yield(g, pc, tok) == [g |-> [g EXCEPT !.pc = pc], y |-> <<tok>>]
StopIteration(g) == [g |-> [g EXCEPT !.pc = "done"], y |-> <<>>]

RECURSIVE LoopHead(_)

(* every token is forwarded, a block start a second time *)
Line97ForwardsIndent(g) == Yield(g, "y98", g.tok)

(* lines 95-98: forward the token unless it is an Indent *)
Line97(g) ==
    IF g.tok.id # "Indent" THEN Yield(g, "y98", g.tok) ELSE LoopHead(g)

(* a token is taken for a block start when the indentation did not change *)
Line91NotDecreased(g) ==
    IF g.indent_change >= 0
    THEN Yield([g EXCEPT !.indent_stack = Append(@, g.curr_indent)], "y93", g.tok)
    ELSE Line97(g)

(* lines 90-93: indentation increased *)
Line91(g) ==
    IF g.indent_change > 0
    THEN Yield([g EXCEPT !.indent_stack = Append(@, g.curr_indent)], "y93", g.tok)
    ELSE Line97(g)

(* the loop also pops the bottom of the stack *)
WhileTestPopsBottom(g) ==
    IF Top(g.indent_stack) > g.curr_indent \/ g.indent_stack = <<0>>
    THEN Yield([g EXCEPT !.indent_stack = Pop(@)], "y87",
               Token("Dedent", PyInt(Top(g.indent_stack)), <<g.position>>))
    ELSE Line91(g)

(* the loop also pops a level equal to the current indentation *)
WhileTestPopsEqual(g) ==
    IF Top(g.indent_stack) >= g.curr_indent
    THEN Yield([g EXCEPT !.indent_stack = Pop(@)], "y87",
               Token("Dedent", PyInt(Top(g.indent_stack)), <<g.position>>))
    ELSE Line91(g)

(* lines 86-87: the test of the while loop and the first yield of its body *)
WhileTest(g) ==
    IF Top(g.indent_stack) > g.curr_indent
    THEN Yield([g EXCEPT !.indent_stack = Pop(@)], "y87",
               Token("Dedent", PyInt(Top(g.indent_stack)), <<g.position>>))
    ELSE Line91(g)

(* line 85 *)
Line85(g) == IF g.indent_change < 0 THEN WhileTest(g) ELSE Line91(g)

(* lines 66-72 *)
Indentation(g, tok) ==
    IF g.newline_last
    THEN LET indent == IF tok.id = "Indent" THEN tok.value.n ELSE 0
         IN  IF indent # g.curr_indent
             THEN [g EXCEPT !.indent_change = indent - g.curr_indent,
                            !.curr_indent = indent]
             ELSE [g EXCEPT !.indent_change = 0]
    ELSE [g EXCEPT !.indent_change = 0]

(* lines 74-80 *)
Position(g, tok) ==
    IF tok.id = "NewLine"
    THEN [g EXCEPT !.position = @ + tok.value.n, !.newline_last = TRUE,
                   !.tok = tok]
    ELSE [g EXCEPT !.newline_last = FALSE, !.tok = [tok EXCEPT !.line = <<g.position>>]]

(* line 63, then the body up to its first yield; line 100 when raw is exhausted *)
LoopHead(g) ==
    IF g.idx = Len(g.raw)
    THEN Yield(g, "y100", Token("End", PyNone, NoLine))
    ELSE LET tok == g.raw[g.idx + 1]
         IN  Line85(Position(Indentation([g EXCEPT !.idx = @ + 1], tok), tok))

(* the NewLine of line 88 is left out *)
ResumeNoNewLineAfterDedent(g) ==
    CASE g.pc = "start" -> LoopHead(g)
      [] g.pc = "y87"   -> WhileTest(g)
      [] g.pc = "y88"   -> WhileTest(g)
      [] g.pc = "y93"   -> Line97(g)
      [] g.pc = "y98"   -> LoopHead(g)
      [] g.pc = "y100"  -> StopIteration(g)
      [] OTHER          -> StopIteration(g)

(* next(tokens) on the generator: run it to its next yield *)
Resume(g) ==
    CASE g.pc = "start" -> LoopHead(g)
      [] g.pc = "y87"   -> Yield(g, "y88", Token("NewLine", PyNone, <<g.position>>))
      [] g.pc = "y88"   -> WhileTest(g)
      [] g.pc = "y93"   -> Line97(g)
      [] g.pc = "y98"   -> LoopHead(g)
      [] g.pc = "y100"  -> StopIteration(g)
      [] OTHER          -> StopIteration(g)

----------------------------------------------------------------------------
(* The parser.  Its state is the record m = [gen, out, chains, frames,      *)
(* pulled, stored, result]; a step runs the innermost call from one next(tokens)    *)
(* to just before the following one.                                        *)

Machine == [gen |-> gen, out |-> out, chains |-> chains, frames |-> frames,
            pulled |-> pulled, stored |-> stored, result |-> result]

(* an exception leaves every active call *)
Raise(m, status, msg) ==
    [m EXCEPT !.result = [status |-> status, value |-> PyNone, msg |-> msg,
                          allowed |-> <<>>],
              !.frames = <<>>]

(* errors.SyntaxError(msg) of line 45; "allowed" keeps the kinds advance    *)
(* was called with, which the message is meant to name                      *)
RaiseSyntaxError(m, msg, allowed) ==
    [Raise(m, "SyntaxError", msg) EXCEPT !.result.allowed = allowed.kinds]

(* next(it): iterator 0 is the generator, iterator k > 0 is chains[k],      *)
(* which gives its own list first and then what chains[k].under gives       *)
RECURSIVE NextOf(_, _)
NextOf(m, it) ==
    IF it = 0
    THEN LET r == Resume(m.gen)
         IN  [m |-> [m EXCEPT !.gen = r.g, !.out = @ \o r.y], y |-> r.y]
    ELSE IF m.chains[it].head # <<>>
         THEN [m |-> [m EXCEPT !.chains[it].head = Tail(@)],
               y |-> <<Head(m.chains[it].head)>>]
         ELSE NextOf(m, m.chains[it].under)

(* the argument "allowed" of advance: None, one token class, or a tuple *)
AnyToken == [given |-> FALSE, tuple |-> FALSE, kinds |-> <<>>]
OneOf(kind) == [given |-> TRUE, tuple |-> FALSE, kinds |-> <<kind>>]
TupleOf(kinds) == [given |-> TRUE, tuple |-> TRUE, kinds |-> kinds]

(* line 42: all(...) reads allowed_tokens up to and including the first     *)
(* class whose id is tok.id; it reads all of them when there is none        *)
ReadByAll(kinds, tok) ==
    IF \E i \in 1..Len(kinds) : kinds[i] = tok.id
    THEN CHOOSE i \in 1..Len(kinds) :
            /\ kinds[i] = tok.id
            /\ \A j \in 1..(i - 1) : kinds[j] # tok.id
    ELSE Len(kinds)

(* line 44: what the list comprehension over allowed_tokens still finds:    *)
(* iter(allowed) of a tuple is an iterator, which all(...) has used up;     *)
(* [allowed] is a list, which is read from its start again                  *)
ExpectedNames(allowed, tok) ==
    IF allowed.tuple
    THEN SubSeq(allowed.kinds, ReadByAll(allowed.kinds, tok) + 1, Len(allowed.kinds))
    ELSE allowed.kinds

(* lines 43-45 *)
SyntaxErrorMsg(allowed, tok) ==
    <<[tok |-> [id |-> tok.id, value |-> tok.value],
       expected |-> ExpectedNames(allowed, tok),
       line |-> tok.line]>>

(* advance(tokens, allowed): the new state, and the token returned (<<>>    *)
(* when it raised)                                                          *)
advance(m, it, allowed) ==
    LET n == NextOf(m, it)
    IN  IF n.y = <<>>
        THEN [m |-> Raise(n.m, "StopIteration", <<>>), tok |-> <<>>]
        ELSE LET tok == n.y[1]
                 m1 == [n.m EXCEPT !.pulled = Append(@, tok)]
             IN  IF allowed.given /\ \A i \in 1..Len(allowed.kinds) : allowed.kinds[i] # tok.id
                 THEN [m |-> RaiseSyntaxError(m1, SyntaxErrorMsg(allowed, tok), allowed),
                       tok |-> <<>>]
                 ELSE [m |-> m1, tok |-> <<tok>>]

(* go on with F unless advance raised *)
Then(a, F(_, _)) == IF a.tok = <<>> THEN a.m ELSE F(a.m, a.tok[1])

CurFrame(m) == m.frames[Len(m.frames)]
SetPc(m, pc) == [m EXCEPT !.frames[Len(m.frames)].pc = pc]

(* a new call of fn, reading the iterator it *)
Frame(fn, pc, it, data) ==
    [fn |-> fn, pc |-> pc, it |-> it, data |-> data, key |-> PyNone, ents |-> <<>>]

(* the first next(tokens) of each parse method *)
FirstPc(id) ==
    CASE id = "LeftRound"  -> "L308"
      [] id = "LeftSquare" -> "L337"
      [] id = "LeftBrace"  -> "L365"
      [] id = "Indent"     -> "L431"

EmptyData(id) == IF id = "LeftSquare" THEN PyList(<<>>) ELSE PyDict(<<>>)

(* the token classes that override Token.parse *)
Overrides == {"LeftRound", "LeftSquare", "LeftBrace", "Indent"}

(* where each function goes on once a key, a value or an item is parsed *)
AfterKey(fn) ==
    CASE fn = "parse"       -> "L120"
      [] fn = "LeftRound"   -> "L312"
      [] fn = "LeftBrace"   -> "L369"
      [] fn = "_parse_dict" -> "L418"

AfterVal(fn) ==
    CASE fn = "parse"       -> "L127"
      [] fn = "LeftRound"   -> "L315"
      [] fn = "LeftBrace"   -> "L372"
      [] fn = "_parse_dict" -> "L425"

AfterItem(fn) ==
    CASE fn = "LeftSquare"  -> "L343"
      [] fn = "_parse_list" -> "L407"

(* the keys of a Python dictionary: equal keys are one key, and True == 1,  *)
(* False == 0                                                               *)
KeyNumber(v) == IF v.kind = "bool" THEN (IF v.b THEN 1 ELSE 0) ELSE v.n
KeyEq(a, b) ==
    IF a.kind \in {"int", "bool"} /\ b.kind \in {"int", "bool"}
    THEN KeyNumber(a) = KeyNumber(b)
    ELSE a = b
Hashable(v) == v.kind \notin {"list", "dict"}

(* data[key] = value: an equal key keeps its place (and the key object      *)
(* first stored) and takes the new value; a new key goes last               *)
DictSet(d, key, value) ==
    IF \E i \in 1..Len(d.pairs) : KeyEq(d.pairs[i].key, key)
    THEN PyDict([i \in 1..Len(d.pairs) |->
                    IF KeyEq(d.pairs[i].key, key)
                    THEN [key |-> d.pairs[i].key, val |-> value]
                    ELSE d.pairs[i]])
    ELSE PyDict(Append(d.pairs, [key |-> key, val |-> value]))

(* the caller takes the value that tok.parse(tokens) returned *)
Deliver(m, value) ==
    LET f == CurFrame(m)
        top == Len(m.frames)
    IN  CASE f.pc = "retKey" ->
               [m EXCEPT !.frames[top].key = value, !.frames[top].pc = AfterKey(f.fn)]
          [] f.pc = "retVal" ->
               IF Hashable(f.key)
               THEN [m EXCEPT !.frames[top].data = DictSet(f.data, f.key, value),
                              !.frames[top].ents = Append(@, [key |-> f.key, val |-> value]),
                              !.frames[top].pc = AfterVal(f.fn)]
               ELSE Raise(m, "TypeError", <<>>)
          [] f.pc = "retItem" ->
               [m EXCEPT !.frames[top].data = PyList(Append(f.data.items, value)),
                         !.frames[top].pc = AfterItem(f.fn)]

(* tok.parse(tokens), called where the caller goes on at cont: Token.parse  *)
(* (lines 147-148) returns the token's value; an overriding parse is a new  *)
(* call on the caller's iterator                                            *)
CallParse(m, tok, cont) ==
    IF tok.id \in Overrides
    THEN [SetPc(m, cont) EXCEPT
             !.frames = Append(@, Frame(tok.id, FirstPc(tok.id), CurFrame(m).it,
                                        EmptyData(tok.id)))]
    ELSE Deliver([SetPc(m, cont) EXCEPT
                     !.stored = IF cont = "retKey" THEN @ ELSE Append(@, tok.id)],
                 tok.value)

(* return value: to the caller, or out of parse *)
Return(m, value) ==
    IF Len(m.frames) = 1
    THEN [m EXCEPT !.frames = <<>>,
                   !.result = [status |-> "returned", value |-> value, msg |-> <<>>,
                               allowed |-> <<>>]]
    ELSE Deliver([m EXCEPT !.frames = Pop(@)], value)

(* lines 118-119 *)
parse_while(m, tok) ==
    IF tok.id # "End" THEN CallParse(m, tok, "retKey") ELSE Return(m, CurFrame(m).data)

(* parse, lines 111-130 *)
parse_step(m) ==
    LET f == CurFrame(m)
    IN  CASE f.pc = "L114" ->
               LET n == NextOf(m, f.it)
               IN  IF n.y = <<>>
                   THEN (* the for loop ends; tok is the last token it bound *)
                        IF m.pulled = <<>> THEN Raise(n.m, "UnboundLocalError", <<>>)
                        ELSE parse_while(n.m, m.pulled[Len(m.pulled)])
                   ELSE LET m1 == [n.m EXCEPT !.pulled = Append(@, n.y[1])]
                        IN  IF n.y[1].id # "NewLine" THEN parse_while(m1, n.y[1]) ELSE m1
          [] f.pc = "L120" ->
               Then(advance(m, f.it, OneOf("Colon")), LAMBDA m1, tok : SetPc(m1, "L121"))
          [] f.pc = "L121" ->
               Then(advance(m, f.it, AnyToken),
                    LAMBDA m1, tok : IF tok.id = "NewLine" THEN SetPc(m1, "L124")
                                     ELSE CallParse(m1, tok, "retVal"))
          [] f.pc = "L124" ->
               Then(advance(m, f.it, AnyToken), LAMBDA m1, tok : CallParse(m1, tok, "retVal"))
          [] f.pc = "L127" ->
               Then(advance(m, f.it, OneOf("NewLine")), LAMBDA m1, tok : SetPc(m1, "L128"))
          [] f.pc = "L128" ->
               Then(advance(m, f.it, AnyToken), LAMBDA m1, tok : parse_while(m1, tok))

(* lines 310-311 *)
LeftRound_while(m, tok) ==
    IF tok.id # "RightRound" THEN CallParse(m, tok, "retKey") ELSE Return(m, CurFrame(m).data)

(* LeftRound.parse, lines 306-319 *)
LeftRound_parse(m) ==
    LET f == CurFrame(m)
    IN  CASE f.pc = "L308" ->
               Then(advance(m, f.it, AnyToken), LAMBDA m1, tok : LeftRound_while(m1, tok))
          [] f.pc = "L312" ->
               Then(advance(m, f.it, OneOf("EqualSign")), LAMBDA m1, tok : SetPc(m1, "L313"))
          [] f.pc = "L313" ->
               Then(advance(m, f.it, AnyToken), LAMBDA m1, tok : CallParse(m1, tok, "retVal"))
          [] f.pc = "L315" ->
               Then(advance(m, f.it, TupleOf(<<"Comma", "RightRound">>)),
                    LAMBDA m1, tok : IF tok.id = "Comma" THEN SetPc(m1, "L317")
                                     ELSE LeftRound_while(m1, tok))
          [] f.pc = "L317" ->
               Then(advance(m, f.it, AnyToken), LAMBDA m1, tok : LeftRound_while(m1, tok))

(* the closer is not looked for after a comma *)
LeftSquare_whileNoCloserAfterComma(m, tok) ==
    IF tok.id # "RightSquare" \/ m.pulled[Len(m.pulled) - 1].id = "Comma"
    THEN CallParse(m, tok, "retItem")
    ELSE Return(m, CurFrame(m).data)

(* lines 339-341 *)
LeftSquare_while(m, tok) ==
    IF tok.id # "RightSquare" THEN CallParse(m, tok, "retItem")
    ELSE Return(m, CurFrame(m).data)

(* LeftSquare.parse, lines 335-347 *)
LeftSquare_parse(m) ==
    LET f == CurFrame(m)
    IN  CASE f.pc = "L337" ->
               Then(advance(m, f.it, AnyToken), LAMBDA m1, tok : LeftSquare_while(m1, tok))
          [] f.pc = "L343" ->
               Then(advance(m, f.it, TupleOf(<<"Comma", "RightSquare">>)),
                    LAMBDA m1, tok : IF tok.id = "Comma" THEN SetPc(m1, "L345")
                                     ELSE LeftSquare_while(m1, tok))
          [] f.pc = "L345" ->
               Then(advance(m, f.it, AnyToken), LAMBDA m1, tok : LeftSquare_while(m1, tok))

(* lines 367-368 *)
LeftBrace_while(m, tok) ==
    IF tok.id # "RightBrace" THEN CallParse(m, tok, "retKey") ELSE Return(m, CurFrame(m).data)

(* LeftBrace.parse, lines 363-376 *)
LeftBrace_parse(m) ==
    LET f == CurFrame(m)
    IN  CASE f.pc = "L365" ->
               Then(advance(m, f.it, AnyToken), LAMBDA m1, tok : LeftBrace_while(m1, tok))
          [] f.pc = "L369" ->
               Then(advance(m, f.it, OneOf("Colon")), LAMBDA m1, tok : SetPc(m1, "L370"))
          [] f.pc = "L370" ->
               Then(advance(m, f.it, AnyToken), LAMBDA m1, tok : CallParse(m1, tok, "retVal"))
          [] f.pc = "L372" ->
               Then(advance(m, f.it, TupleOf(<<"Comma", "RightBrace">>)),
                    LAMBDA m1, tok : IF tok.id = "Comma" THEN SetPc(m1, "L374")
                                     ELSE LeftBrace_while(m1, tok))
          [] f.pc = "L374" ->
               Then(advance(m, f.it, AnyToken), LAMBDA m1, tok : LeftBrace_while(m1, tok))

(* the block parser is given the iterator without the peeked token *)
ChainWithoutPeeked(m, tok, it) == [m EXCEPT !.chains = Append(@, [head |-> <<>>, under |-> it])]

(* line 432: tokens = itertools.chain([tok], tokens) *)
Chain(m, tok, it) == [m EXCEPT !.chains = Append(@, [head |-> <<tok>>, under |-> it])]

(* lines 432-437: the call of Indent.parse becomes the call of _parse_list  *)
(* or _parse_dict, whose value it returns unchanged, on the new chain       *)
Indent_delegate(m, tok) ==
    LET m1 == Chain(m, tok, CurFrame(m).it)
        caller == Pop(m1.frames)
        it == Len(m1.chains)
    IN  IF tok.id = "Hyphen"
        THEN [m1 EXCEPT !.frames = Append(caller, Frame("_parse_list", "L402", it, PyList(<<>>)))]
        ELSE [m1 EXCEPT !.frames = Append(caller, Frame("_parse_dict", "L414", it, PyDict(<<>>)))]

(* Indent.parse, lines 430-437 *)
Indent_parse(m) ==
    Then(advance(m, CurFrame(m).it, AnyToken), LAMBDA m1, tok : Indent_delegate(m1, tok))

(* the loop is left after the first item *)
Indent_parse_list_whileOnce(m, tok) ==
    IF tok.id # "Dedent" /\ CurFrame(m).data.items = <<>>
    THEN SetPc(m, "L405")
    ELSE Return(m, CurFrame(m).data)

(* lines 404-405 *)
Indent_parse_list_while(m, tok) ==
    IF tok.id # "Dedent" THEN SetPc(m, "L405") ELSE Return(m, CurFrame(m).data)

(* Indent._parse_list, lines 400-410 *)
Indent_parse_list(m) ==
    LET f == CurFrame(m)
    IN  CASE f.pc = "L402" ->
               Then(advance(m, f.it, AnyToken),
                    LAMBDA m1, tok : Indent_parse_list_while(m1, tok))
          [] f.pc = "L405" ->
               Then(advance(m, f.it, AnyToken), LAMBDA m1, tok : CallParse(m1, tok, "retItem"))
          [] f.pc = "L407" ->
               Then(advance(m, f.it, OneOf("NewLine")), LAMBDA m1, tok : SetPc(m1, "L408"))
          [] f.pc = "L408" ->
               Then(advance(m, f.it, TupleOf(<<"Hyphen", "Dedent">>)),
                    LAMBDA m1, tok : Indent_parse_list_while(m1, tok))

(* lines 416-417 *)
Indent_parse_dict_while(m, tok) ==
    IF tok.id # "Dedent" THEN CallParse(m, tok, "retKey") ELSE Return(m, CurFrame(m).data)

(* Indent._parse_dict, lines 412-428 *)
Indent_parse_dict(m) ==
    LET f == CurFrame(m)
    IN  CASE f.pc = "L414" ->
               Then(advance(m, f.it, AnyToken),
                    LAMBDA m1, tok : Indent_parse_dict_while(m1, tok))
          [] f.pc = "L418" ->
               Then(advance(m, f.it, OneOf("Colon")), LAMBDA m1, tok : SetPc(m1, "L419"))
          [] f.pc = "L419" ->
               Then(advance(m, f.it, AnyToken),
                    LAMBDA m1, tok : IF tok.id = "NewLine" THEN SetPc(m1, "L422")
                                     ELSE CallParse(m1, tok, "retVal"))
          [] f.pc = "L422" ->
               Then(advance(m, f.it, AnyToken), LAMBDA m1, tok : CallParse(m1, tok, "retVal"))
          [] f.pc = "L425" ->
               Then(advance(m, f.it, OneOf("NewLine")), LAMBDA m1, tok : SetPc(m1, "L426"))
          [] f.pc = "L426" ->
               Then(advance(m, f.it, AnyToken),
                    LAMBDA m1, tok : Indent_parse_dict_while(m1, tok))

----------------------------------------------------------------------------
(* Inputs of tokenize: what the scanner can produce.  An Indent token      *)
(* (^[\t ]+) only follows a NewLine; the text is stripped, so it does not  *)
(* start with one.                                                         *)

MaxWidth == 2
MaxRaw == 7

NewLineTok(n) == Token("NewLine", PyInt(n), NoLine)
IndentTok(w) == Token("Indent", PyInt(w), NoLine)
StringTok(s) == Token("String", PyStr(s), NoLine)

IntegerTok(n) == Token("Integer", PyInt(n), NoLine)
BooleanTok(b) == Token("Boolean", PyBool(b), NoLine)
SymbolTok(id) == Token(id, PyNone, NoLine)

(* the token kinds Literal.do makes of a bare literal (a String token here  *)
(* is a quoted one) and the kinds that can follow a bare literal: every     *)
(* other character would have been matched into the literal itself          *)
FromLiteral == {"Integer", "Float", "Boolean", "NoneValue"}
EndsLiteral == {"Comma", "Colon", "EqualSign", "RightSquare", "RightBrace",
                "RightRound", "LeftRound", "NewLine"}

ScannerProducible(s) ==
    \A i \in 1..Len(s) :
        /\ s[i].id = "Indent" => (i > 1 /\ s[i - 1].id = "NewLine")
        /\ (s[i].id \in FromLiteral /\ i < Len(s)) => s[i + 1].id \in EndsLiteral

TokenizeAlphabet ==
    {StringTok(<<"a">>), NewLineTok(1)} \cup {IndentTok(w) : w \in 1..MaxWidth}

TokenizeInputs ==
    {s \in UNION {[1..n -> TokenizeAlphabet] : n \in 0..MaxRaw} : ScannerProducible(s)}

----------------------------------------------------------------------------
(* list(tokenize(input_string)): the caller pulls until StopIteration *)

Running == [status |-> "running", value |-> PyNone, msg |-> <<>>, allowed |-> <<>>]

InitTokenize ==
    /\ mode = "tokenize"
    /\ text = <<>>
    /\ raw \in TokenizeInputs
    /\ lead = 0
    /\ gen = GenInit(raw, lead)
    /\ out = <<>>
    /\ chains = <<>>
    /\ frames = <<>>
    /\ pulled = <<>>
    /\ stored = <<>>
    /\ result = Running

Drain ==
    /\ mode = "tokenize"
    /\ gen.pc # "done"
    /\ LET r == Resume(gen)
       IN  /\ gen' = r.g
           /\ out' = out \o r.y
    /\ UNCHANGED <<mode, text, raw, lead, chains, frames, pulled, stored, result>>

NextTokenize == Drain

SpecTokenize == InitTokenize /\ [][NextTokenize]_vars

----------------------------------------------------------------------------
(* Inputs of parse.  A document is given by the token list the scanner      *)
(* makes of it.                                                             *)

MaxSoup == 3
MaxEntries == 3
MaxItems == 3

SeqsUpTo(S, n) == UNION {[1..k -> S] : k \in 0..n}

RECURSIVE Concat(_)
Concat(ss) == IF ss = <<>> THEN <<>> ELSE Head(ss) \o Concat(Tail(ss))

KeyA == StringTok(<<"a">>)
KeyB == StringTok(<<"b">>)
KeyC == StringTok(<<"c">>)
NL == NewLineTok(1)
Colon == SymbolTok("Colon")
Comma == SymbolTok("Comma")

(* the documents of the specification's section 8 *)
BlockMappingExample ==
    <<KeyA, Colon, NL, IndentTok(4), KeyB, Colon, IntegerTok(1), NL,
      IndentTok(4), KeyC, Colon, IntegerTok(2)>>
BlockSequenceExample ==
    <<StringTok(<<"i", "t", "e", "m", "s">>), Colon, NL, IndentTok(4), SymbolTok("Hyphen"), IntegerTok(1), NL,
      IndentTok(4), SymbolTok("Hyphen"), IntegerTok(2)>>
UnterminatedExample ==
    <<KeyA, Colon, SymbolTok("LeftSquare"), IntegerTok(1), Comma, IntegerTok(2)>>
DuplicateKeyExample ==
    <<KeyA, Colon, IntegerTok(1), NL, KeyA, Colon, IntegerTok(2)>>
Examples ==
    {BlockMappingExample, BlockSequenceExample, UnterminatedExample, DuplicateKeyExample}

(* every short token list, after the start of an entry, of an inline        *)
(* collection or of a block                                                 *)
SoupAlphabet ==
    {KeyA, IntegerTok(1), NL, IndentTok(2), Colon, Comma,
     SymbolTok("EqualSign"), SymbolTok("Hyphen"), SymbolTok("LeftSquare"),
     SymbolTok("RightSquare"), SymbolTok("RightBrace"), SymbolTok("RightRound")}
Prefixes ==
    {<<>>,
     <<KeyA, Colon>>,
     <<KeyA, Colon, SymbolTok("LeftSquare")>>,
     <<KeyA, Colon, SymbolTok("LeftBrace"), KeyA, Colon>>,
     <<KeyA, Colon, SymbolTok("LeftRound"), KeyA, SymbolTok("EqualSign")>>,
     <<KeyA, Colon, NL, IndentTok(2), SymbolTok("Hyphen")>>,
     <<KeyA, Colon, NL, IndentTok(2), KeyA, Colon>>}
SoupDocs ==
    {p \o s : p \in Prefixes, s \in SeqsUpTo(SoupAlphabet, MaxSoup)}

(* mappings: up to MaxEntries entries, written as the top-level document,   *)
(* as {k: v, ...}, as (k = v, ...) or as an indented block                  *)
Keys == {KeyA, IntegerTok(1), BooleanTok(TRUE)}
Vals == {IntegerTok(1), IntegerTok(2)}
EntryLists == SeqsUpTo(Keys \X Vals, MaxEntries)

TopLines(es) == Concat([i \in 1..Len(es) |-> <<es[i][1], Colon, es[i][2], NL>>])
Inline(open, sep, close, es, trailing) ==
    <<KeyB, Colon, SymbolTok(open)>>
    \o Concat([i \in 1..Len(es) |->
                 <<es[i][1], SymbolTok(sep), es[i][2]>>
                 \o (IF i < Len(es) \/ trailing THEN <<Comma>> ELSE <<>>)])
    \o <<SymbolTok(close), NL>>
BlockLines(es) ==
    <<KeyB, Colon, NL>>
    \o Concat([i \in 1..Len(es) |-> <<IndentTok(2), es[i][1], Colon, es[i][2], NL>>])
    \o <<KeyC, Colon, IntegerTok(1), NL>>
MappingDocs ==
    {TopLines(es) : es \in EntryLists}
    \cup {Inline("LeftBrace", "Colon", "RightBrace", es, t) : es \in EntryLists, t \in BOOLEAN}
    \cup {Inline("LeftRound", "EqualSign", "RightRound", es, t) : es \in EntryLists, t \in BOOLEAN}
    \cup {BlockLines(es) : es \in EntryLists \ {<<>>}}

(* sequences: up to MaxItems scalar items, written as [v, ...] or as an     *)
(* indented block of "- v" lines                                            *)
Items == {KeyA, IntegerTok(1), IntegerTok(2)}
ItemLists == SeqsUpTo(Items, MaxItems)
InlineSeq(is, trailing) ==
    <<KeyB, Colon, SymbolTok("LeftSquare")>>
    \o Concat([i \in 1..Len(is) |->
                 <<is[i]>> \o (IF i < Len(is) \/ trailing THEN <<Comma>> ELSE <<>>)])
    \o <<SymbolTok("RightSquare"), NL>>
BlockSeq(is, follow) ==
    <<KeyB, Colon, NL>>
    \o Concat([i \in 1..Len(is) |-> <<IndentTok(2), SymbolTok("Hyphen"), is[i], NL>>])
    \o follow
SequenceDocs ==
    {InlineSeq(is, t) : is \in ItemLists, t \in BOOLEAN}
    \cup {BlockSeq(is, f) : is \in ItemLists \ {<<>>},
                            f \in {<<KeyC, Colon, IntegerTok(1), NL>>, <<KeyA>>, <<Comma>>}}

(* two entries with a line between them that holds only a comment, at      *)
(* column 0 (w = 0) or after w blanks: the scanner drops the Comment        *)
(* (do = None) and keeps the line's Indent and NewLine                      *)
CommentLine(w) == IF w = 0 THEN <<NL>> ELSE <<IndentTok(w), NL>>
EntryPairs == {es \in EntryLists : Len(es) = 2}
TopLinesCommented(es, w) ==
    TopLines(<<es[1]>>) \o CommentLine(w) \o TopLines(<<es[2]>>)
BlockLinesCommented(es, w) ==
    <<KeyB, Colon, NL>>
    \o <<IndentTok(2), es[1][1], Colon, es[1][2], NL>>
    \o CommentLine(w)
    \o <<IndentTok(2), es[2][1], Colon, es[2][2], NL>>
    \o <<KeyC, Colon, IntegerTok(1), NL>>
CommentDocs ==
    {TopLinesCommented(es, w) : es \in EntryPairs, w \in 0..MaxWidth}
    \cup {BlockLinesCommented(es, w) : es \in EntryPairs, w \in 0..MaxWidth}

(* a block sequence whose items are followed, on a line of the block, by a  *)
(* token that is not a Hyphen; by a wider line; or by the end of the text   *)
Strays ==
    {<<IndentTok(2), x>> : x \in {KeyA, IntegerTok(1), Colon, Comma, SymbolTok("LeftSquare"),
                                   SymbolTok("RightSquare"), SymbolTok("EqualSign")}}
    \cup {<<IndentTok(4), SymbolTok("Hyphen"), IntegerTok(1), NL>>, <<>>}
StrayDocs == {BlockSeq(is, x) : is \in ItemLists \ {<<>>}, x \in Strays}

(* a block inside a block: under "b:" the entry "a:" whose value is a block *)
(* mapping or a block sequence of one line, followed by a line of the outer *)
(* block or by none, and then by an entry at column 0                       *)
InnerLines ==
    {<<IndentTok(4), e[1], Colon, e[2], NL>> : e \in Keys \X Vals}
    \cup {<<IndentTok(4), SymbolTok("Hyphen"), v, NL>> : v \in Items}
NestedDocs ==
    {<<KeyB, Colon, NL, IndentTok(2), KeyA, Colon, NL>> \o inner \o outer
     \o <<KeyC, Colon, IntegerTok(1), NL>> :
        inner \in InnerLines,
        outer \in {<<>>, <<IndentTok(2), KeyC, Colon, IntegerTok(2), NL>>}}

ParseInputs ==
    {d \in Examples \cup {e \o <<NL>> : e \in Examples}
           \cup SoupDocs \cup MappingDocs \cup SequenceDocs \cup CommentDocs
           \cup StrayDocs \cup NestedDocs :
        ScannerProducible(d)}

----------------------------------------------------------------------------
(* parse(input_string) *)

Init ==
    /\ mode = "parse"
    /\ text = <<>>
    /\ raw \in ParseInputs
    /\ lead = 0
    /\ gen = GenInit(raw, lead)
    /\ out = <<>>
    /\ chains = <<>>
    /\ frames = <<Frame("parse", "L114", 0, PyDict(<<>>))>>
    /\ pulled = <<>>
    /\ stored = <<>>
    /\ result = Running

Set(m) ==
    /\ gen' = m.gen
    /\ out' = m.out
    /\ chains' = m.chains
    /\ frames' = m.frames
    /\ pulled' = m.pulled
    /\ stored' = m.stored
    /\ result' = m.result
    /\ UNCHANGED <<mode, text, raw, lead>>

InCall(fn) == mode = "parse" /\ frames # <<>> /\ frames[Len(frames)].fn = fn

Parse == InCall("parse") /\ \E m \in {parse_step(Machine)} : Set(m)
LeftRoundParse == InCall("LeftRound") /\ \E m \in {LeftRound_parse(Machine)} : Set(m)
LeftSquareParse == InCall("LeftSquare") /\ \E m \in {LeftSquare_parse(Machine)} : Set(m)
LeftBraceParse == InCall("LeftBrace") /\ \E m \in {LeftBrace_parse(Machine)} : Set(m)
IndentParse == InCall("Indent") /\ \E m \in {Indent_parse(Machine)} : Set(m)
IndentParseList == InCall("_parse_list") /\ \E m \in {Indent_parse_list(Machine)} : Set(m)
IndentParseDict == InCall("_parse_dict") /\ \E m \in {Indent_parse_dict(Machine)} : Set(m)

Next ==
    \/ Parse
    \/ LeftRoundParse
    \/ LeftSquareParse
    \/ LeftBraceParse
    \/ IndentParse
    \/ IndentParseList
    \/ IndentParseDict

Spec == Init /\ [][Next]_vars

(* parse runs in one thread, which always takes its next step.  The fair    *)
(* specification decodes the examples, the nested blocks and every other    *)
(* structured document of at most MaxFairRaw raw tokens.                    *)
MaxFairRaw == 12
FairInputs ==
    {d \in ParseInputs :
        d \in Examples \cup NestedDocs \/ (d \notin SoupDocs /\ Len(d) <= MaxFairRaw)}
InitFair ==
    /\ mode = "parse"
    /\ text = <<>>
    /\ raw \in FairInputs
    /\ lead = 0
    /\ gen = GenInit(raw, lead)
    /\ out = <<>>
    /\ chains = <<>>
    /\ frames = <<Frame("parse", "L114", 0, PyDict(<<>>))>>
    /\ pulled = <<>>
    /\ stored = <<>>
    /\ result = Running
SpecFair == InitFair /\ [][Next]_vars /\ WF_vars(Next)

----------------------------------------------------------------------------
(* The conversion cascade of a bare literal: Literal.do and the convert     *)
(* methods it calls.  A conversion gives <<value>>, or <<>> for None.       *)

DigitChars == <<"0", "1", "2", "3", "4", "5", "6", "7", "8", "9">>
Digits == {DigitChars[i] : i \in 1..Len(DigitChars)}
DigitValue(ch) == (CHOOSE i \in 1..Len(DigitChars) : DigitChars[i] = ch) - 1

UpperChars == <<"A", "E", "F", "I", "L", "N", "O", "R", "S", "T", "U", "Y">>
LowerChars == <<"a", "e", "f", "i", "l", "n", "o", "r", "s", "t", "u", "y">>
LowerChar(ch) ==
    IF \E i \in 1..Len(UpperChars) : UpperChars[i] = ch
    THEN LowerChars[CHOOSE i \in 1..Len(UpperChars) : UpperChars[i] = ch]
    ELSE ch
Lower(string) == [i \in 1..Len(string) |-> LowerChar(string[i])]

(* U+00B2, a character that is a digit to str.isdigit() and that int()     *)
(* does not accept (as are the other superscript and the circled digits)   *)
SuperscriptTwo == "SUPERSCRIPT TWO"
OtherDigits == {SuperscriptTwo}

(* str.isdigit() *)
IsDigit(string) ==
    string # <<>> /\ \A i \in 1..Len(string) : string[i] \in Digits \cup OtherDigits

(* a non-empty run of the decimal digits "0".."9" *)
IsDecimal(string) == string # <<>> /\ \A i \in 1..Len(string) : string[i] \in Digits

(* the ValueError int() raises *)
ValueError == [kind |-> "ValueError"]

(* int(string) of a run of digits *)
RECURSIVE IntOf(_)
IntOf(string) ==
    IF string = <<>> THEN 0
    ELSE 10 * IntOf(SubSeq(string, 1, Len(string) - 1)) + DigitValue(string[Len(string)])

(* Integer.convert, lines 195-198: the ValueError of int() is not caught *)
Integer_convert(string) ==
    IF ~IsDigit(string) THEN <<>>
    ELSE IF IsDecimal(string) THEN <<PyInt(IntOf(string))>>
    ELSE <<ValueError>>

(* what float(string) accepts: [sign] number, or [sign] inf, infinity or    *)
(* nan in any casing; number is digits[.[digits]][exponent] or              *)
(* .digits[exponent], the digits possibly grouped by single underscores     *)
IsDigitPart(string) ==
    /\ string # <<>>
    /\ string[1] \in Digits /\ string[Len(string)] \in Digits
    /\ \A i \in 1..Len(string) : string[i] \in Digits \cup {"_"}
    /\ \A i \in 1..(Len(string) - 1) : ~(string[i] = "_" /\ string[i + 1] = "_")
UnsignedKeepsSign(string) == string
Unsigned(string) ==
    IF string # <<>> /\ string[1] \in {"+", "-"} THEN Tail(string) ELSE string
IsExponent(string) ==
    \/ string = <<>>
    \/ string[1] \in {"e", "E"} /\ IsDigitPart(Unsigned(Tail(string)))
IsMantissa(string) ==
    \/ IsDigitPart(string)
    \/ \E k \in 1..Len(string) :
          LET ip == SubSeq(string, 1, k - 1)
              fp == SubSeq(string, k + 1, Len(string))
          IN  /\ string[k] = "."
              /\ ip = <<>> \/ IsDigitPart(ip)
              /\ fp = <<>> \/ IsDigitPart(fp)
              /\ ~(ip = <<>> /\ fp = <<>>)
(* where the exponent starts (Len + 1 when there is none) *)
ExponentAt(string) ==
    IF \E k \in 1..Len(string) : string[k] \in {"e", "E"}
    THEN CHOOSE k \in 1..Len(string) : string[k] \in {"e", "E"}
    ELSE Len(string) + 1
IsNumber(string) ==
    /\ IsMantissa(SubSeq(string, 1, ExponentAt(string) - 1))
    /\ IsExponent(SubSeq(string, ExponentAt(string), Len(string)))
SpecialFloats ==
    {<<"i", "n", "f">>, <<"i", "n", "f", "i", "n", "i", "t", "y">>, <<"n", "a", "n">>}
FloatSyntax(string) ==
    IsNumber(Unsigned(string)) \/ Lower(Unsigned(string)) \in SpecialFloats

(* the value float(string) gives *)
RECURSIVE Normal(_, _, _)
Normal(neg, mant, exp) ==
    IF mant = 0 THEN PyFloat(neg, 0, 0, "")
    ELSE IF mant % 10 = 0 THEN Normal(neg, mant \div 10, exp + 1)
    ELSE PyFloat(neg, mant, exp, "")
OnlyDigits(string) == SelectSeq(string, LAMBDA ch : ch \in Digits)
FloatOf(string) ==
    LET neg == string[1] = "-"
        u == Unsigned(string)
    IN  IF ~IsNumber(u)
        THEN PyFloat(neg, 0, 0, IF u[1] \in {"n", "N"} THEN "nan" ELSE "inf")
        ELSE LET e == ExponentAt(u)
                 m == SubSeq(u, 1, e - 1)
                 x == SubSeq(u, e + 1, Len(u))
                 dot == IF \E k \in 1..Len(m) : m[k] = "."
                        THEN CHOOSE k \in 1..Len(m) : m[k] = "." ELSE Len(m)
                 frac == Len(OnlyDigits(SubSeq(m, dot + 1, Len(m))))
                 ex == IF x = <<>> THEN 0
                       ELSE IF x[1] = "-" THEN 0 - IntOf(OnlyDigits(x))
                       ELSE IntOf(OnlyDigits(x))
             IN  Normal(neg, IntOf(OnlyDigits(m)), ex - frac)

(* Float.convert, lines 207-212 *)
Float_convert(string) == IF FloatSyntax(string) THEN <<FloatOf(string)>> ELSE <<>>

(* Boolean._mapping, lines 221-224 *)
TrueTexts ==
    {<<"t", "r", "u", "e">>, <<"T", "r", "u", "e">>, <<"T", "R", "U", "E">>,
     <<"y", "e", "s">>, <<"Y", "e", "s">>, <<"Y", "E", "S">>}
FalseTexts ==
    {<<"f", "a", "l", "s", "e">>, <<"F", "a", "l", "s", "e">>, <<"F", "A", "L", "S", "E">>,
     <<"n", "o">>, <<"N", "o">>, <<"N", "O">>}

(* Boolean.convert, lines 226-230 *)
Boolean_convert(string) ==
    IF string \in TrueTexts THEN <<PyBool(TRUE)>>
    ELSE IF string \in FalseTexts THEN <<PyBool(FALSE)>>
    ELSE <<>>

(* line 256 *)
NullTexts == {<<"n", "u", "l", "l">>, <<"N", "u", "l", "l">>, <<"N", "U", "L", "L">>}

(* line 254, "if value is not None" *)
IsNotNone(value) == value # <<>>

(* Literal.do, lines 250-258: a token, or the exception that leaves it *)
Literal_do(string) ==
    IF Integer_convert(string) = <<ValueError>> THEN ValueError
    ELSE IF IsNotNone(Integer_convert(string))
    THEN Token("Integer", Integer_convert(string)[1], NoLine)
    ELSE IF IsNotNone(Float_convert(string))
    THEN Token("Float", Float_convert(string)[1], NoLine)
    ELSE IF IsNotNone(Boolean_convert(string))
    THEN Token("Boolean", Boolean_convert(string)[1], NoLine)
    ELSE IF string \in NullTexts THEN Token("NoneValue", PyNone, NoLine)
    ELSE Token("String", PyStr(string), NoLine)

(* The texts the scanner hands to Literal.do: the pattern of lines 244-248  *)
(* matches no empty text, and a text starting with "-" only when another    *)
(* character follows (a lone "-" is a Hyphen).                              *)
MaxLiteralLen == 3

LiteralChars == {"0", "1", "2", "4", ".", "-", "e", "n", "a", SuperscriptTwo}
LiteralMatches(string) == string # <<>> /\ (string[1] = "-" => Len(string) >= 2)
LiteralTexts ==
    {t \in UNION {[1..n -> LiteralChars] : n \in 1..MaxLiteralLen}
           \cup TrueTexts \cup FalseTexts \cup NullTexts
           \cup {<<"a", "b", "c">>, <<"t", "r", "u", "E">>, <<"n", "u", "l", "L">>} :
        LiteralMatches(t)}

InitLiteral ==
    /\ mode = "scan"
    /\ text \in LiteralTexts
    /\ raw = <<>>
    /\ lead = 0
    /\ gen = GenInit(<<>>, 0)
    /\ out = <<>>
    /\ chains = <<>>
    /\ frames = <<>>
    /\ pulled = <<>>
    /\ stored = <<>>
    /\ result = Running

(* the scanner calls Literal.do on the text and keeps the token; an        *)
(* exception leaves the scan, and the parse that called it                 *)
ScanLiteral ==
    /\ mode = "scan"
    /\ raw = <<>>
    /\ result = Running
    /\ IF Literal_do(text) = ValueError
       THEN /\ result' = [Running EXCEPT !.status = "ValueError"]
            /\ raw' = raw
       ELSE /\ raw' = <<Literal_do(text)>>
            /\ result' = result
    /\ UNCHANGED <<mode, text, lead, gen, out, chains, frames, pulled, stored>>

NextLiteral == ScanLiteral

SpecLiteral == InitLiteral /\ [][NextLiteral]_vars

----------------------------------------------------------------------------
(* Properties of parse, checked under Spec                                  *)

Entry(key, val) == [key |-> key, val |-> val]
Finished == result.status # "running"
Returned(value) == result.status = "returned" /\ result.value = value

(* C1: decoding the three-line document "a:" / "    b: 1" / "    c: 2",     *)
(* whose text ends on the last line of the block, returns                   *)
(* Mapping{a: Mapping{b: 1, c: 2}} and raises no error.                     *)
C1_BlockMappingAtEndOfTextDecodes ==
    (raw = BlockMappingExample /\ Finished) =>
        Returned(PyDict(<<Entry(PyStr(<<"a">>),
                           PyDict(<<Entry(PyStr(<<"b">>), PyInt(1)),
                                    Entry(PyStr(<<"c">>), PyInt(2))>>))>>))

(* C2: parse either returns the root Mapping or fails with a SyntaxError    *)
(* (a LexicalError is the scanner's, before any token exists); nothing is   *)
(* pulled from the generator once it has yielded End, so it never runs to   *)
(* its end and no StopIteration escapes.                                    *)
C2_OnlySyntaxErrorsEscape ==
    mode = "parse" =>
        /\ result.status \in {"running", "returned", "SyntaxError"}
        /\ gen.pc # "done"

(* C3: the message of every SyntaxError names the token that was pulled,    *)
(* every kind advance was called with, and the line of that token.          *)
C3_SyntaxErrorNamesTokenKindsAndLine ==
    result.status = "SyntaxError" =>
        LET e == result.msg[1]
            tok == pulled[Len(pulled)]
        IN  /\ e.tok = [id |-> tok.id, value |-> tok.value]
            /\ \A i \in 1..Len(result.allowed) :
                   \E j \in 1..Len(e.expected) : e.expected[j] = result.allowed[i]
            /\ e.line # NoLine
            /\ e.line = tok.line

(* C4: no token of a kind without a parse method of its own (Comma, Colon,  *)
(* EqualSign, Hyphen, a closing bracket, Dedent, NewLine, End) is ever      *)
(* taken as a value or as an item: the value position makes decoding fail.  *)
NoParseOverride ==
    {"Comma", "Colon", "EqualSign", "Hyphen", "RightRound", "RightSquare",
     "RightBrace", "Dedent", "NewLine", "End"}
C4_PunctuationIsNeverAValue ==
    \A i \in 1..Len(stored) : stored[i] \notin NoParseOverride

(* C5: a Mapping built from a sequence of (key, value) entries holds each   *)
(* distinct key once, with the value of the last entry of that key, at the  *)
(* position of the first entry of that key.  Keys are values of the tagged  *)
(* union: the Integer 1 and the Boolean true are two keys.                  *)
BuildsMapping(f) == f.fn \in {"parse", "LeftRound", "LeftBrace", "_parse_dict"}
EntriesOfKey(es, key) == {e \in 1..Len(es) : es[e].key = key}
SetMax(S) == CHOOSE x \in S : \A y \in S : y <= x
SetMin(S) == CHOOSE x \in S : \A y \in S : x <= y
IsMappingOf(ps, es) ==
    /\ \A x, y \in 1..Len(ps) : x # y => ps[x].key # ps[y].key
    /\ \A e \in 1..Len(es) : \E x \in 1..Len(ps) : ps[x].key = es[e].key
    /\ \A x \in 1..Len(ps) :
           /\ EntriesOfKey(es, ps[x].key) # {}
           /\ ps[x].val = es[SetMax(EntriesOfKey(es, ps[x].key))].val
    /\ \A x, y \in 1..Len(ps) :
           x < y => SetMin(EntriesOfKey(es, ps[x].key)) < SetMin(EntriesOfKey(es, ps[y].key))
C5_LastWriteWinsAtFirstPosition ==
    \A i \in 1..Len(frames) :
        BuildsMapping(frames[i]) => IsMappingOf(frames[i].data.pairs, frames[i].ents)

(* C6: an inline collection keeps the order of its items and takes a comma  *)
(* before the closer: [v, ...] and [v, ...,] both return the Sequence of    *)
(* the items in source order, {k: v, ...} and (k = v, ...) both return the  *)
(* Mapping of the entries with or without that comma, and in every case     *)
(* the collection's parse consumes the tokens up to the closer and no more. *)
InlineSeqDocs == {InlineSeq(is, t) : is \in ItemLists, t \in BOOLEAN}
InlineMapDocs ==
    {Inline("LeftBrace", "Colon", "RightBrace", es, t) : es \in EntryLists, t \in BOOLEAN}
    \cup {Inline("LeftRound", "EqualSign", "RightRound", es, t) : es \in EntryLists, t \in BOOLEAN}
(* the tokens between the brackets, the commas left out *)
Between(doc) == SelectSeq(SubSeq(doc, 4, Len(doc) - 2), LAMBDA t : t.id # "Comma")
ItemsWritten(doc) == [i \in 1..Len(Between(doc)) |-> Between(doc)[i].value]
RECURSIVE MappingWritten(_, _)
MappingWritten(toks, d) ==
    IF toks = <<>> THEN d
    ELSE MappingWritten(SubSeq(toks, 4, Len(toks)), DictSet(d, toks[1].value, toks[3].value))
InlineResult(value) ==
    /\ Finished => Returned(PyDict(<<Entry(PyStr(<<"b">>), value)>>))
    /\ (frames # <<>> /\ frames[Len(frames)].pc = "L127") =>
           /\ Len(pulled) = Len(raw) - 1
           /\ pulled[Len(pulled)].id = raw[Len(raw) - 1].id
           /\ frames[1].data = PyDict(<<Entry(PyStr(<<"b">>), value)>>)
C6_InlineOrderAndTrailingComma ==
    /\ raw \in InlineSeqDocs => InlineResult(PyList(ItemsWritten(raw)))
    /\ raw \in InlineMapDocs => InlineResult(MappingWritten(Between(raw), PyDict(<<>>)))

(* [v1, v2, v3,] has been parsed, up to its closer *)
C6_Witness ==
    /\ raw \in InlineSeqDocs
    /\ Len(Between(raw)) = 3
    /\ raw[Len(raw) - 2].id = "Comma"
    /\ Between(raw)[1] # Between(raw)[2]
    /\ frames # <<>> /\ frames[Len(frames)].pc = "L127"

(* C8: every token handed to the parser that is not a NewLine carries a     *)
(* line number: forwarded tokens, Indent markers, Dedent tokens and End.    *)
C8_EveryTokenButNewLineHasALine ==
    \A i \in 1..Len(pulled) : pulled[i].id # "NewLine" => pulled[i].line # NoLine

(* the Mapping the entries es build, inserted in their order *)
RECURSIVE EntriesMapping(_)
EntriesMapping(es) ==
    IF es = <<>> THEN PyDict(<<>>)
    ELSE DictSet(EntriesMapping(SubSeq(es, 1, Len(es) - 1)),
                 es[Len(es)][1].value, es[Len(es)][2].value)
InBlock(value) ==
    PyDict(<<Entry(PyStr(<<"b">>), value), Entry(PyStr(<<"c">>), PyInt(1))>>)

(* C13: a line holding only a comment, at column 0 or indented, between two *)
(* entries at top level or inside an indented block does not change the     *)
(* decode result: the document with the line decodes to what the document   *)
(* without it decodes to.                                                   *)
C13_CommentLineChangesNothing ==
    Finished =>
        \A es \in EntryPairs :
            /\ raw = TopLines(es) => Returned(EntriesMapping(es))
            /\ raw = BlockLines(es) => Returned(InBlock(EntriesMapping(es)))
            /\ \A w \in 0..MaxWidth :
                   /\ raw = TopLinesCommented(es, w) => Returned(EntriesMapping(es))
                   /\ raw = BlockLinesCommented(es, w) => Returned(InBlock(EntriesMapping(es)))

(* the block sequence of the items is, followed by the entry c: 1 *)
BlockSeqDoc(is) == BlockSeq(is, <<KeyC, Colon, IntegerTok(1), NL>>)
ItemValues(is) == PyList([i \in 1..Len(is) |-> is[i].value])
BlockSeqReturned(is) ==
    /\ Finished => Returned(InBlock(ItemValues(is)))
    /\ (Len(frames) = 1 /\ frames[1].pc = "L127" /\ Len(frames[1].data.pairs) = 1) =>
           /\ frames[1].data = PyDict(<<Entry(PyStr(<<"b">>), ItemValues(is))>>)
           /\ pulled[Len(pulled)].id = "Dedent"
           /\ out[Len(out)].id = "Dedent"
           /\ Len(out) = 3 + 1 + 3 * Len(is) + 1
           /\ out[4].id = "Indent"
           /\ \A i \in 1..Len(is) :
                  /\ out[3 * i + 2].id = "Hyphen"
                  /\ out[3 * i + 3].id = is[i].id
                  /\ out[3 * i + 3].value = is[i].value
                  /\ out[3 * i + 4].id = "NewLine"
StrayAfterItem ==
    (/\ InCall("_parse_list")
     /\ frames[Len(frames)].pc = "L408"
     /\ Len(pulled') = Len(pulled) + 1
     /\ pulled'[Len(pulled')].id \notin {"Hyphen", "Dedent"})
    => result'.status = "SyntaxError"

(* C14: on the stream Indent, n >= 1 times (Hyphen, scalar, NewLine),       *)
(* Dedent, Indent.parse returns the Sequence of the n items in source order *)
(* and has consumed the tokens up to the Dedent and no further; after an    *)
(* item's NewLine a token that is neither Hyphen nor Dedent ends decoding   *)
(* with a SyntaxError.                                                      *)
C14_BlockSequence ==
    /\ [](\A is \in ItemLists \ {<<>>} : raw = BlockSeqDoc(is) => BlockSeqReturned(is))
    /\ [][StrayAfterItem]_vars

(* the block sequence of three items, not all the same, has been returned   *)
(* to parse                                                                 *)
C14_Witness ==
    /\ \E is \in ItemLists : Len(is) = 3 /\ is[1] # is[2] /\ raw = BlockSeqDoc(is)
    /\ Len(frames) = 1 /\ frames[1].pc = "L127" /\ Len(frames[1].data.pairs) = 1

(* the pushed-back tokens that have been read again *)
Redelivered == Cardinality({k \in 1..Len(chains) : chains[k].head = <<>>})
(* the step hands a token to parser code *)
Pulls == Len(pulled') = Len(pulled) + 1
(* the call about to run is a block parser that has not read anything yet *)
Delegated ==
    /\ frames # <<>>
    /\ \/ frames[Len(frames)].fn = "_parse_list" /\ frames[Len(frames)].pc = "L402"
       \/ frames[Len(frames)].fn = "_parse_dict" /\ frames[Len(frames)].pc = "L414"

(* in every state: every token the generator has yielded has been handed to *)
(* parser code, and the only tokens handed over twice are the peeked ones;  *)
(* a token pushed back and not yet read again is the last one yielded and   *)
(* waits in the newest chain                                                *)
NothingLost ==
    /\ Len(pulled) = Len(out) + Redelivered
    /\ \A k \in 1..Len(chains) :
           chains[k].head # <<>> =>
               /\ k = Len(chains)
               /\ chains[k].head = <<out[Len(out)]>>
               /\ pulled[Len(pulled)] = out[Len(out)]
               /\ Delegated /\ frames[Len(frames)].it = k

(* in every step: pulled grows by at most one token; a token taken from the *)
(* generator is the next one of the stream and is handed over at once; a    *)
(* token handed over without the generator running is the peeked one, read  *)
(* as the first token of the delegated block parser; Indent.parse leaves    *)
(* its peeked token as the first one of the iterator it delegates with      *)
InStreamOrder ==
    /\ Len(pulled') \in {Len(pulled), Len(pulled) + 1}
    /\ SubSeq(pulled', 1, Len(pulled)) = pulled
    /\ SubSeq(out', 1, Len(out)) = out
    /\ out' # out => /\ Len(out') = Len(out) + 1
                     /\ Pulls
                     /\ pulled'[Len(pulled')] = out'[Len(out')]
                     /\ ~Delegated
    /\ (Pulls /\ out' = out) => Delegated
    /\ Delegated => /\ Pulls
                    /\ out' = out
                    /\ pulled'[Len(pulled')] = pulled[Len(pulled)]
    /\ (InCall("Indent") /\ Pulls) =>
           /\ Len(chains') = Len(chains) + 1
           /\ chains'[Len(chains')].head = <<pulled'[Len(pulled')]>>
           /\ chains'[Len(chains')].under = frames[Len(frames)].it
           /\ Len(frames') = Len(frames)
           /\ frames'[Len(frames')].it = Len(chains')

(* C15: the pushback of Indent.parse loses and duplicates nothing: the      *)
(* tokens handed to parser code are the tokens of the normalised stream in  *)
(* stream order, each handed over once but for the peeked token, which is   *)
(* the first token of the delegated block parser; after a block parser has  *)
(* returned, the next token is the one that follows the block's Dedent.     *)
C15_PushbackLosesNothing ==
    [](mode = "parse" => NothingLost) /\ [][mode = "parse" => InStreamOrder]_vars

(* a block inside a block has been returned from, and parse has gone on to  *)
(* the entry after the blocks                                               *)
C15_Witness ==
    /\ Len(chains) >= 2
    /\ Redelivered = Len(chains)
    /\ Len(frames) = 1 /\ frames[1].pc = "L128"
    /\ \E j \in 1..(Len(pulled) - 1) : pulled[j].id = "Dedent"
    /\ result = Running

----------------------------------------------------------------------------
(* Properties of tokenize, checked under SpecTokenize                       *)

indent_stack == gen.indent_stack
curr_indent == gen.curr_indent

(* the lines of the text as the scanner's tokens show them: a line starts   *)
(* at the first token and after every NewLine; its width is that of its     *)
(* Indent token, 0 when it has none                                         *)
LineStart(i) == i = 1 \/ raw[i - 1].id = "NewLine"
Width(i) == IF raw[i].id = "Indent" THEN raw[i].value.n ELSE 0
PrevStart(i) == CHOOSE j \in 1..(i - 1) :
                    LineStart(j) /\ \A k \in (j + 1)..(i - 1) : ~LineStart(k)
PrevWidth(i) == Width(PrevStart(i))
Widens(q) == q > 1 /\ LineStart(q) /\ Width(q) > PrevWidth(q)
Narrows(q) == q > 1 /\ LineStart(q) /\ Width(q) < PrevWidth(q)

(* in a step: the raw tokens the generator takes, and the token it yields *)
Taken == (gen.idx + 1)..gen'.idx
Yields(id) == Len(out') = Len(out) + 1 /\ out'[Len(out')].id = id

IndentRule ==
    /\ \A q \in Taken : Widens(q) => Yields("Indent") /\ out'[Len(out')].value = PyInt(Width(q))
    /\ Yields("Indent") => \E q \in Taken : Widens(q)

(* C7 as stated: a line wider than the line before it gets exactly one      *)
(* Indent before its first token, and a line narrower than the line before  *)
(* it gets at least one Dedent before its first token.                      *)
C7_EveryNarrowerLineGetsADedent ==
    [][IndentRule /\ \A q \in Taken : Narrows(q) => Yields("Dedent")]_vars

(* C7 as amended: a narrower line gets a Dedent exactly when the top of     *)
(* indent_stack is above its width.                                         *)
C7_NarrowerLineBelowOpenBlockGetsADedent ==
    [][IndentRule
       /\ \A q \in Taken :
              Narrows(q) => (Yields("Dedent") <=> Top(gen.indent_stack) > Width(q))]_vars

(* the text is read to its end; it had two narrower lines and an Indent,    *)
(* and one Dedent was emitted                                               *)
C7_Witness ==
    /\ gen.pc = "done"
    /\ Cardinality({q \in 1..Len(raw) : Narrows(q)}) = 2
    /\ Cardinality({j \in 1..Len(out) : out[j].id = "Dedent"}) = 1
    /\ \E j \in 1..Len(out) : out[j].id = "Indent"

StackShape ==
    /\ Len(indent_stack) > 0
    /\ indent_stack[1] = 0
    /\ \A i \in 1..(Len(indent_stack) - 1) : indent_stack[i] < indent_stack[i + 1]

(* C10 as stated: in every state of the normaliser indent_stack is not      *)
(* empty, starts with 0, increases strictly and its top is at most          *)
(* curr_indent.                                                             *)
C10_StackBelowCurrentIndentAlways ==
    StackShape /\ Top(indent_stack) <= curr_indent

(* C10 as amended: the shape holds in every state; the top is at most       *)
(* curr_indent in every state but those inside the dedent loop (the         *)
(* generator suspended at line 87 or 88).                                   *)
C10_StackBelowCurrentIndentOutsideDedentLoop ==
    StackShape /\ (gen.pc \notin {"y87", "y88"} => Top(indent_stack) <= curr_indent)

(* two blocks were open and a line at width 0 has closed both *)
C10_Witness ==
    /\ gen.pc = "y98"
    /\ indent_stack = <<0>>
    /\ \E i, j \in 1..Len(out) :
           /\ i < j
           /\ out[i].id = "Dedent" /\ out[j].id = "Dedent"
           /\ out[i].line = out[j].line

(* the widths of the Indents among the first n tokens of the stream that   *)
(* no later Dedent among them has matched, oldest first                    *)
RECURSIVE Unmatched(_)
Unmatched(n) ==
    IF n = 0 THEN <<>>
    ELSE IF out[n].id = "Indent" THEN Append(Unmatched(n - 1), out[n].value.n)
    ELSE IF out[n].id = "Dedent" /\ Unmatched(n - 1) # <<>> THEN Pop(Unmatched(n - 1))
    ELSE Unmatched(n - 1)
CountOf(id, n) == Cardinality({j \in 1..n : out[j].id = id})

BalancedStream ==
    /\ \A n \in 0..Len(out) : CountOf("Dedent", n) <= CountOf("Indent", n)
    /\ \A j \in 1..Len(out) :
           out[j].id = "Dedent" =>
               /\ Unmatched(j - 1) # <<>>
               /\ out[j].value = PyInt(Top(Unmatched(j - 1)))
               /\ IF j = Len(out) THEN gen.pc = "y87"
                  ELSE out[j + 1] = Token("NewLine", PyNone, out[j].line)
    /\ Len(Unmatched(Len(out))) = Len(indent_stack) - 1
    /\ <<0>> \o Unmatched(Len(out)) = indent_stack
    /\ \A j \in 1..Len(out) : out[j].id = "End" <=> (j = Len(out) /\ gen.pc \in {"y100", "done"})
    /\ gen.pc \in {"y100", "done"} => (out # <<>> /\ out[Len(out)].id = "End")
    /\ gen.pc = "done" => CountOf("End", Len(out)) = 1

(* once the raw tokens are used up and no dedent loop is running, the next  *)
(* token is End, whatever is still on indent_stack                          *)
EndWithoutFlush ==
    (gen.idx = Len(raw) /\ gen.pc \in {"start", "y93", "y98"}) =>
        (Yields("End") /\ gen'.indent_stack = gen.indent_stack)

(* C11: in every prefix of the normalised stream there are no more Dedents  *)
(* than Indents; each Dedent carries the width of the latest unmatched      *)
(* Indent and is followed at once by a synthetic NewLine; the unmatched     *)
(* Indents are as many as indent_stack is deep, less one; at the end of the *)
(* input one End is emitted, last, and no Dedent for the levels still on    *)
(* the stack.                                                               *)
C11_DedentsMatchIndentsAndEndIsLast ==
    []BalancedStream /\ [][EndWithoutFlush]_vars

(* the stream is complete: a block was closed by a Dedent and another is    *)
(* still open at End                                                        *)
C11_Witness ==
    /\ mode = "tokenize"
    /\ gen.pc = "done"
    /\ CountOf("Dedent", Len(out)) >= 1
    /\ Len(indent_stack) >= 2

(* a token without its line *)
Unlined(tok) == [id |-> tok.id, value |-> tok.value]
UnlinedSeq(toks) == [j \in 1..Len(toks) |-> Unlined(toks[j])]
IsPrefix(p, q) == Len(p) <= Len(q) /\ SubSeq(q, 1, Len(p)) = p

(* the tokens of the stream that tokenize did not create: not a Dedent, not *)
(* the NewLine after it (which has no value), not End; and among them the   *)
(* Indents and the others                                                   *)
IsSynthetic(tok) ==
    tok.id \in {"Dedent", "End"} \/ (tok.id = "NewLine" /\ tok.value = PyNone)
Forwarded ==
    UnlinedSeq(SelectSeq(out, LAMBDA t : ~IsSynthetic(t) /\ t.id # "Indent"))
BlockStarts == UnlinedSeq(SelectSeq(out, LAMBDA t : t.id = "Indent"))
RawOthers(n) == UnlinedSeq(SelectSeq(SubSeq(raw, 1, n), LAMBDA t : t.id # "Indent"))
(* the raw Indents among the first n raw tokens that are wider than the     *)
(* line before them                                                         *)
RECURSIVE RawWidening(_)
RawWidening(n) ==
    IF n = 0 THEN <<>>
    ELSE IF raw[n].id = "Indent" /\ Widens(n) THEN Append(RawWidening(n - 1), Unlined(raw[n]))
    ELSE RawWidening(n - 1)

(* C12: every raw token that is not an Indent is forwarded once, in the     *)
(* order of the raw tokens: the stream without its Indent, Dedent,          *)
(* synthetic NewLine and End tokens is the raw sequence without its         *)
(* Indents.  A raw Indent is in the stream at most once, and only when it   *)
(* is wider than the line before it.                                        *)
C12_ForwardsEachRawTokenOnce ==
    /\ IsPrefix(Forwarded, RawOthers(Len(raw)))
    /\ Forwarded \in {RawOthers(gen.idx), RawOthers(gen.idx - 1)}
    /\ gen.pc \in {"y98", "y100", "done"} => Forwarded = RawOthers(gen.idx)
    /\ gen.pc \in {"y100", "done"} => Forwarded = RawOthers(Len(raw))
    /\ IsPrefix(BlockStarts, RawWidening(Len(raw)))
    /\ BlockStarts = RawWidening(gen.idx)

(* the stream is complete; the text had an Indent that opened a block, one  *)
(* that did not, and a line that closed a block                             *)
C12_Witness ==
    /\ mode = "tokenize"
    /\ gen.pc = "done"
    /\ Len(BlockStarts) >= 1
    /\ Cardinality({q \in 1..Len(raw) : raw[q].id = "Indent"}) > Len(BlockStarts)
    /\ \E j \in 1..Len(out) : out[j].id = "Dedent"
    /\ \E j \in 1..Len(Forwarded) : Forwarded[j].id = "String"

----------------------------------------------------------------------------
(* Termination of parse, checked under SpecFair                             *)

(* a step of a running decode hands one more token to parser code or ends   *)
(* the decode; the stream is never longer than the raw tokens, a Dedent and *)
(* a NewLine for each at most, and End                                      *)
Consumes == result = Running => (Pulls \/ result' # Running)
StreamBounded ==
    /\ StackShape
    /\ Len(out) <= 3 * Len(raw) + 1
    /\ Len(pulled) <= 2 * Len(out)

(* C16: parse terminates on every finite raw token sequence: the bottom 0   *)
(* of indent_stack is never popped, so the dedent loop stops; every step of *)
(* every parser loop consumes a token of the finite stream; and the call    *)
(* in the end returns a Mapping or raises.                                  *)
C16_ParseTerminates ==
    /\ <>Finished
    /\ [](mode = "parse" => StreamBounded)
    /\ [][mode = "parse" => Consumes]_vars

(* a decode that went through the entry loop, a block and a nested block    *)
(* has returned its Mapping                                                 *)
C16_Witness ==
    /\ result.status = "returned"
    /\ Len(chains) >= 2
    /\ Len(result.value.pairs) = 2
    /\ \E j \in 1..Len(out) : out[j].id = "Dedent"

----------------------------------------------------------------------------
(* Properties of Literal.do, checked under SpecLiteral                      *)

LiteralDone == mode = "scan" /\ (raw # <<>> \/ result # Running)

(* C9: every literal is classified by the first rule that matches, in the   *)
(* order Integer, Float, Boolean, Null, String: a non-empty run of decimal  *)
(* digits is an Integer (also "0"), a text float() accepts is a Float, the  *)
(* listed casings of true/yes are Boolean true and those of false/no        *)
(* Boolean false, the listed casings of null are Null, and any other text   *)
(* is a String holding the text as it is.                                   *)
C9_LiteralCascade ==
    LiteralDone =>
        /\ raw # <<>>
        /\ raw[1].id = (IF IsDecimal(text) THEN "Integer"
                        ELSE IF FloatSyntax(text) THEN "Float"
                        ELSE IF text \in TrueTexts \cup FalseTexts THEN "Boolean"
                        ELSE IF text \in NullTexts THEN "NoneValue"
                        ELSE "String")
        /\ raw[1].id = "Integer" => raw[1].value = PyInt(IntOf(text))
        /\ raw[1].id = "Boolean" => raw[1].value = PyBool(text \in TrueTexts)
        /\ raw[1].id = "NoneValue" => raw[1].value = PyNone
        /\ raw[1].id = "String" => raw[1].value = PyStr(text)
        /\ text = <<"4", "2">> => raw[1] = Token("Integer", PyInt(42), NoLine)
        /\ text = <<"0">> => raw[1] = Token("Integer", PyInt(0), NoLine)
        /\ text = <<"4", ".", "2">> => raw[1] = Token("Float", PyFloat(FALSE, 42, 0 - 1, ""), NoLine)

(* a minus sign followed by decimal digits *)
MinusDigits == Len(text) >= 2 /\ text[1] = "-" /\ IsDecimal(Tail(text))

(* C17 as stated: a minus sign followed by decimal digits is converted to   *)
(* no numeric kind; the cascade gives a String holding the text.            *)
C17_MinusDigitsIsAString ==
    (LiteralDone /\ MinusDigits) => raw = <<Token("String", PyStr(text), NoLine)>>

(* C17 as amended: the Integer rule rejects a minus sign followed by        *)
(* decimal digits and the Float rule takes it: the literal is the Float of  *)
(* that negative number, "-1" the Float -1.0.                               *)
C17_MinusDigitsIsAFloat ==
    (LiteralDone /\ MinusDigits) =>
        /\ Integer_convert(text) = <<>>
        /\ raw # <<>>
        /\ raw[1].id = "Float"
        /\ raw[1].value.kind = "float" /\ raw[1].value.neg /\ raw[1].value.special = ""
        /\ text = <<"-", "1">> => raw[1].value = PyFloat(TRUE, 1, 0, "")
        /\ text = <<"-", "4", "0">> => raw[1].value = PyFloat(TRUE, 4, 1, "")

(* "-1" has been scanned *)
C17_Witness == LiteralDone /\ text = <<"-", "1">> /\ raw # <<>>

====
